---- MODULE Spec2Model ----
(***************************************************************************)
(* databayes: the time-series adapter DBInfluxDB (databayes/db/db_influx.py)*)
(* over an InfluxDB bucket store, and the polymorphic loader ObjCore       *)
(* (databayes/core.py).                                                     *)
(*                                                                          *)
(* Python values are records [t, s, w, o]: t is the value's type name, s    *)
(* its text (what str() prints), and w/o the wall-clock reading and the UTC *)
(* offset of a datetime.  Endpoints are sequences of characters so that     *)
(* str.split can be computed; every other name is a string.                 *)
(***************************************************************************)
EXTENDS Integers, Sequences, FiniteSets, TLC

VARIABLES
    name,       \* DBInfluxDB.name, "" when the adapter has no explicit name
    bkd,        \* DBInfluxDB.bkd: 0 is None, k > 0 the k-th InfluxDBClient made
    clients,    \* per client: api (api_client still set), rel (times released)
    buckets,    \* the backend's buckets (names)
    store,      \* the backend's points
    call,       \* the last completed call: its arguments and its outcome
    ctx,        \* the `with` block around the adapter
    inp,        \* the caller's arguments of the write/read scenario
    ldr,        \* the loader: the value handed to it and what it produced
    callers     \* per concurrent caller: how far its put or reset has come

vars == <<name, bkd, clients, buckets, store, call, ctx, inp, ldr, callers>>

(***************************************************************************)
(* Bounds                                                                   *)
(***************************************************************************)
MaxConnects == 2
MaxEndpointLen == 3
MaxTime == 2
MaxData == 2
MaxBlocks == 2

(***************************************************************************)
(* Python values                                                            *)
(***************************************************************************)
Val(t, s) == [t |-> t, s |-> s, w |-> 0, o |-> 0]

DateTime(w, o) == [t |-> "datetime", s |-> ToString(w) \o "+" \o ToString(o), w |-> w, o |-> o]

NoneVal == Val("NoneType", "None")

NaN == Val("float", "nan")

\* isinstance(value, (str, int, float)); bool is a subclass of int
IsPrimitive(v) == v.t \in {"str", "int", "float", "bool"}

\* str(value)
Str(v) == Val("str", v.s)

Range(f) == {f[i] : i \in DOMAIN f}

(***************************************************************************)
(* try_convert_to_dict                                                      *)
(***************************************************************************)
\* x.startswith("{") and x.endswith("}"), over the texts of the model
BraceTexts == {"{'a': 1}", "{1, 2}", "{oops}"}

\* ast.literal_eval on a brace text: a dict display, a set display, or an error
LiteralEval(s) ==
    CASE s = "{'a': 1}" -> [ok |-> TRUE, v |-> Val("dict", s)]
      [] s = "{1, 2}" -> [ok |-> TRUE, v |-> Val("set", s)]
      [] OTHER -> [ok |-> FALSE, v |-> NoneVal]

try_convert_to_dict(x) ==
    IF x.t = "str" /\ x.s \in BraceTexts
    THEN IF LiteralEval(x.s).ok THEN LiteralEval(x.s).v ELSE x
    ELSE x

(***************************************************************************)
(* Endpoint resolution                                                      *)
(***************************************************************************)
RECURSIVE Join(_)
Join(cs) == IF cs = <<>> THEN "" ELSE Head(cs) \o Join(Tail(cs))

\* the index of the first "/" of cs, 0 when there is none
RECURSIVE FirstSlash(_, _)
FirstSlash(cs, i) ==
    IF i > Len(cs) THEN 0
    ELSE IF cs[i] = "/" THEN i ELSE FirstSlash(cs, i + 1)

\* endpoint.split("/"): the segments between the slashes, in order
RECURSIVE Split(_)
Split(cs) ==
    LET k == FirstSlash(cs, 1) IN
    IF k = 0 THEN <<cs>>
    ELSE <<SubSeq(cs, 1, k - 1)>> \o Split(SubSeq(cs, k + 1, Len(cs)))

Absent == [some |-> FALSE, s |-> ""]

Some(s) == [some |-> TRUE, s |-> s]

\* a Python truth test on an optional string
Truthy(m) == m.some /\ m.s # ""

\* a resolution that splits the endpoint whether or not the adapter is named
ResolveBySplitOnly(nm, endpoint) ==
    LET parts == Split(endpoint) IN
    [bucket |-> Join(parts[1]),
     measurement |-> IF Len(parts) > 1 THEN Some(Join(parts[2])) ELSE Absent]

_resolve_bucket_measurement(nm, endpoint) ==
    IF nm # ""
    THEN [bucket |-> nm, measurement |-> Some(Join(endpoint))]
    ELSE LET parts == Split(endpoint) IN
         [bucket |-> Join(parts[1]),
          measurement |-> IF Len(parts) > 1 THEN Some(Join(parts[2])) ELSE Absent]

(***************************************************************************)
(* The write path: one Point per record (put, the loop over data)           *)
(***************************************************************************)
\* the loop `for idx in index` of put: the tags of one point, by tag name
RECURSIVE PointTags(_, _, _, _)
PointTags(item, index, time_field, i) ==
    IF i = 0 THEN <<>>
    ELSE LET idx == index[i]
             before == PointTags(item, index, time_field, i - 1) IN
         IF idx \in DOMAIN item /\ idx # time_field
         THEN LET value == item[idx]
                  key == IF IsPrimitive(value) THEN idx ELSE Str(value).s IN
              (key :> value) @@ before
         ELSE before

\* a loop that stringifies every field value
PointFieldsAllStr(item, index, time_field) ==
    [key \in {k \in DOMAIN item :
                 k \notin Range(index) /\ k # "measurement" /\ k # time_field}
        |-> Str(item[key])]

\* the loop `for key, value in item.items()` of put: the fields of one point
PointFields(item, index, time_field) ==
    [key \in {k \in DOMAIN item :
                 k \notin Range(index) /\ k # "measurement" /\ k # time_field}
        |-> IF IsPrimitive(item[key]) THEN item[key] ELSE Str(item[key])]

\* a point that is never given its time
PointTimeNever(item, time_field) == [set |-> FALSE, v |-> NoneVal]

\* `if time_field in item: point.time(item[time_field])`
PointTime(item, time_field) ==
    IF time_field \in DOMAIN item
    THEN [set |-> TRUE, v |-> item[time_field]]
    ELSE [set |-> FALSE, v |-> NoneVal]

\* item.get("measurement", measurement)
PointMeasurement(item, measurement) ==
    IF "measurement" \in DOMAIN item THEN item["measurement"]
    ELSE IF measurement.some THEN Val("str", measurement.s) ELSE NoneVal

BuildPoint(item, index, time_field, measurement) ==
    [name |-> PointMeasurement(item, measurement),
     time |-> PointTime(item, time_field),
     tags |-> PointTags(item, index, time_field, Len(index)),
     fields |-> PointFields(item, index, time_field)]

(***************************************************************************)
(* The backend: what the InfluxDB client and server do with the calls       *)
(***************************************************************************)
\* a datetime as the instant it denotes (the client converts to UTC)
Instant(v) == v.w - v.o

\* the tags of a point as the line protocol carries them: their text, and
\* none with an empty name or an empty text
WireTags(tags) ==
    [k \in {k \in DOMAIN tags : k # "" /\ tags[k].s # ""} |-> tags[k].s]

\* one point as the server stores it; a point with no time gets the server's
Stored(bucket, point, now) ==
    [bucket |-> bucket,
     m |-> point.name.s,
     tags |-> WireTags(point.tags),
     time |-> IF point.time.set THEN Instant(point.time.v) ELSE now,
     fields |-> point.fields]

SameSeries(p, q) ==
    p.bucket = q.bucket /\ p.m = q.m /\ p.tags = q.tags /\ p.time = q.time

\* the type a field already has in a measurement of a bucket differs
TypeConflict(st, p) ==
    \E q \in st : \E f \in DOMAIN p.fields \cap DOMAIN q.fields :
        q.bucket = p.bucket /\ q.m = p.m /\ q.fields[f].t # p.fields[f].t

\* one point written: a point of the same series and time takes the new
\* fields over its own (last write wins), any other point is added
Upsert(st, p) ==
    IF \E q \in st : SameSeries(p, q)
    THEN {IF SameSeries(p, q) THEN [q EXCEPT !.fields = p.fields @@ q.fields] ELSE q
             : q \in st}
    ELSE st \cup {p}

\* write_api.write(bucket, record=points): the points in order; a point with
\* no field is no line, a point of a conflicting field type is refused and
\* makes the call throw after the others were written
RECURSIVE WriteBatch(_, _, _, _, _)
WriteBatch(st, bucket, points, now, i) ==
    IF i > Len(points) THEN [st |-> st, refused |-> FALSE]
    ELSE LET p == Stored(bucket, points[i], now) IN
         IF DOMAIN p.fields = {} THEN WriteBatch(st, bucket, points, now, i + 1)
         ELSE IF TypeConflict(st, p)
         THEN [WriteBatch(st, bucket, points, now, i + 1) EXCEPT !.refused = TRUE]
         ELSE WriteBatch(Upsert(st, p), bucket, points, now, i + 1)

\* the adapter holds a client whose api_client is still set
Connected == bkd # 0 /\ clients[bkd].api

\* whether backend call c throws in this invocation: the caller is not
\* connected, or the backend fails the call named by thr
Throws(c, thr) == ~Connected \/ thr = c

(***************************************************************************)
(* The record of a call                                                     *)
(***************************************************************************)
NoCall ==
    [op |-> "none", endpoint |-> <<>>, data |-> <<>>, index |-> <<>>,
     time_field |-> "_time", start |-> NoneVal, stop |-> NoneVal, tags |-> <<>>,
     bucket |-> "", measurement |-> Absent,
     raised |-> "", success_count |-> 0, failure_count |-> 0,
     flag |-> "None", rows |-> {}, count |-> 0, created |-> FALSE,
     given |-> TRUE, threw |-> "", again |-> FALSE, before |-> "none",
     points |-> <<>>]

(***************************************************************************)
(* put                                                                      *)
(***************************************************************************)
\* _ensure_bucket_exists: look the bucket up, create it when it is absent
_ensure_bucket_exists(bucket_name, thr) ==
    IF Throws("find_bucket", thr)
    THEN [threw |-> "find_bucket", buckets |-> buckets, created |-> FALSE]
    ELSE IF bucket_name \in buckets
    THEN [threw |-> "", buckets |-> buckets, created |-> FALSE]
    ELSE IF Throws("create_bucket", thr)
    THEN [threw |-> "create_bucket", buckets |-> buckets, created |-> FALSE]
    ELSE [threw |-> "", buckets |-> buckets \cup {bucket_name}, created |-> TRUE]

\* the call repeats the one before it: a put of the same arguments that
\* reported no failure
Repeats(endpoint, data, index, time_field) ==
    /\ call.op = "put" /\ call.raised = "" /\ call.failure_count = 0
    /\ call.endpoint = endpoint /\ call.data = data /\ call.index = index
    /\ call.time_field = time_field

\* the outcome of put on the current backend state: an exception of the
\* bucket lookup or creation leaves put, one of the batch write is counted
PutOutcome(endpoint, data, index, time_field, thr, now) ==
    LET r == _resolve_bucket_measurement(name, endpoint)
        e == _ensure_bucket_exists(r.bucket, thr)
        points == [i \in 1..Len(data) |-> BuildPoint(data[i], index, time_field, r.measurement)]
        w == WriteBatch(store, r.bucket, points, now, 1)
        base == [NoCall EXCEPT !.endpoint = endpoint, !.data = data, !.index = index,
                               !.time_field = time_field, !.bucket = r.bucket,
                               !.measurement = r.measurement, !.created = e.created,
                               !.again = Repeats(endpoint, data, index, time_field)] IN
    IF e.threw # ""
    THEN [buckets |-> e.buckets, store |-> store,
          call |-> [base EXCEPT !.raised = "Exception", !.threw = e.threw]]
    ELSE IF Throws("write", thr)
    THEN [buckets |-> e.buckets, store |-> store,
          call |-> [base EXCEPT !.failure_count = Len(data), !.threw = "write",
                                !.points = points]]
    ELSE IF w.refused
    THEN [buckets |-> e.buckets, store |-> w.st,
          call |-> [base EXCEPT !.failure_count = Len(data), !.threw = "write",
                                !.points = points]]
    ELSE [buckets |-> e.buckets, store |-> w.st,
          call |-> [base EXCEPT !.success_count = Len(data), !.points = points]]

Put(endpoint, data, index, time_field, thr, now) ==
    LET out == PutOutcome(endpoint, data, index, time_field, thr, now) IN
    /\ buckets' = out.buckets
    /\ store' = out.store
    /\ call' = [out.call EXCEPT !.op = "put"]
    /\ UNCHANGED <<name, bkd, clients, ctx, inp, ldr, callers>>

\* update: a put of the one record, its counts turned into a flag
Update(endpoint, item, index, time_field, thr, now) ==
    LET out == PutOutcome(endpoint, <<item>>, index, time_field, thr, now) IN
    /\ buckets' = out.buckets
    /\ store' = out.store
    /\ call' = [out.call EXCEPT !.op = "update",
                                !.flag = IF out.call.raised # "" THEN "None"
                                         ELSE IF out.call.failure_count > 0 THEN "False"
                                         ELSE "True"]
    /\ UNCHANGED <<name, bkd, clients, ctx, inp, ldr, callers>>

(***************************************************************************)
(* get                                                                      *)
(***************************************************************************)
not_tag_fields ==
    {"result", "table", "_start", "_stop", "_time", "_value", "_field", "_measurement"}

\* the records the query returns for one point: one per field
NarrowOf(p) ==
    {[m |-> p.m, tags |-> p.tags, time |-> p.time, field |-> f, value |-> p.fields[f]]
        : f \in DOMAIN p.fields}

\* r["k"] of the query language: a tag, or one of the record's own columns
HasColumn(n, k) == k \in DOMAIN n.tags \/ k \in {"_measurement", "_field"}

Column(n, k) ==
    IF k = "_measurement" THEN n.m ELSE IF k = "_field" THEN n.field ELSE n.tags[k]

\* limit(n: limit) keeps the first rows of each table, a table being one
\* series of one field, in time order
WithinLimit(ns, n, limit) ==
    Cardinality({q \in ns : q.m = n.m /\ q.tags = n.tags /\ q.field = n.field
                            /\ q.time < n.time}) < limit

\* the query built by get, run by the backend
Query(bucket, measurement, filter, projection, limit) ==
    LET all == UNION {NarrowOf(p) : p \in {q \in store : q.bucket = bucket /\ q.time >= 0}}
        ofm == {n \in all : Truthy(measurement) => n.m = measurement.s}
        flt == {n \in ofm : \A k \in DOMAIN filter :
                                HasColumn(n, k) /\ Column(n, k) = Str(filter[k]).s}
        prj == {n \in flt : projection # <<>> => n.field \in Range(projection)} IN
    IF limit > 0 THEN {n \in prj : WithinLimit(prj, n, limit)} ELSE prj

TagCell(n, k) == IF k \in DOMAIN n.tags THEN Val("str", n.tags[k]) ELSE NaN

\* the time cell: pd.to_datetime, and tz_convert when use_local_tz
TimeCell(t, use_local_tz, zone) ==
    IF use_local_tz THEN DateTime(t + zone, zone) ELSE DateTime(t, 0)

\* df.pivot(index=tag_fields + ["_time"], columns="_field", values="_value"),
\* reset_index, map(try_convert_to_dict) and the renaming of "_time"
Pivot(ns, time_field, use_local_tz, zone) ==
    LET tag_fields == UNION {DOMAIN n.tags : n \in ns} \ not_tag_fields
        fields == {n.field : n \in ns}
        Key(n) == [tags |-> [k \in tag_fields |-> TagCell(n, k)], time |-> n.time]
        keys == {Key(n) : n \in ns}
        duplicate == \E n1 \in ns, n2 \in ns :
                        n1 # n2 /\ Key(n1) = Key(n2) /\ n1.field = n2.field
        clash == fields \cap (tag_fields \cup {"_time"}) # {}
        Cell(k, c) ==
            IF c \in tag_fields THEN k.tags[c]
            ELSE IF c = "_time" THEN TimeCell(k.time, use_local_tz, zone)
            ELSE IF \E n \in ns : Key(n) = k /\ n.field = c
                 THEN (CHOOSE n \in ns : Key(n) = k /\ n.field = c).value
                 ELSE NaN
        Renamed(c) == IF c = "_time" THEN time_field ELSE c
        cols == tag_fields \cup {"_time"} \cup fields
        Row(k) == [c \in {Renamed(c) : c \in cols} |->
                      try_convert_to_dict(
                          Cell(k, CHOOSE d \in cols : Renamed(d) = c))] IN
    IF ns = {} THEN [raised |-> "KeyError", rows |-> {}]
    ELSE IF duplicate \/ clash THEN [raised |-> "ValueError", rows |-> {}]
    ELSE [raised |-> "", rows |-> {Row(k) : k \in keys}]

Get(endpoint, filter, projection, limit, time_field, use_local_tz, thr, zone) ==
    LET r == _resolve_bucket_measurement(name, endpoint)
        base == [NoCall EXCEPT !.op = "get", !.endpoint = endpoint, !.tags = filter,
                               !.index = projection, !.count = limit,
                               !.time_field = time_field, !.bucket = r.bucket,
                               !.measurement = r.measurement]
        wide == Pivot(Query(r.bucket, r.measurement, filter, projection, limit),
                      time_field, use_local_tz, zone) IN
    /\ call' = IF Throws("query", thr) \/ r.bucket \notin buckets
               THEN [base EXCEPT !.raised = "Exception", !.threw = "query"]
               ELSE [base EXCEPT !.raised = wide.raised, !.rows = wide.rows]
    /\ UNCHANGED <<name, bkd, clients, buckets, store, ctx, inp, ldr, callers>>

(***************************************************************************)
(* size                                                                     *)
(***************************************************************************)
\* the lookback of size's query, range(start: -1y), in the model's time unit
YearSpan == 1

\* f"{measurement}" inside a query or a predicate
Formatted(measurement) == IF measurement.some THEN measurement.s ELSE "None"

Size(endpoint, thr, now) ==
    LET r == _resolve_bucket_measurement(name, endpoint)
        base == [NoCall EXCEPT !.op = "size", !.endpoint = endpoint, !.bucket = r.bucket,
                               !.measurement = r.measurement]
        counted == UNION {NarrowOf(p) :
                             p \in {q \in store : /\ q.bucket = r.bucket
                                                  /\ q.m = Formatted(r.measurement)
                                                  /\ q.time >= now - YearSpan
                                                  /\ q.time <= now}} IN
    /\ call' = IF Throws("query", thr) \/ r.bucket \notin buckets
               THEN [base EXCEPT !.raised = "Exception", !.threw = "query"]
               ELSE [base EXCEPT !.count = Cardinality(counted)]
    /\ UNCHANGED <<name, bkd, clients, buckets, store, ctx, inp, ldr, callers>>

(***************************************************************************)
(* delete                                                                   *)
(***************************************************************************)
\* timestamp.strftime("%Y-%m-%dT%H:%M:%S.%fZ"): the wall-clock reading of the
\* datetime, whatever its offset, with a literal Z; a value that is no
\* datetime has no strftime
strftime(v) ==
    IF v.t = "datetime" THEN [ok |-> TRUE, utc |-> v.w] ELSE [ok |-> FALSE, utc |-> 0]

\* the points a backend delete removes: the predicate and the range, ends included
Matches(p, bucket, measurement, start, stop, tags) ==
    /\ p.bucket = bucket
    /\ p.m = Formatted(measurement)
    /\ \A k \in DOMAIN tags : k \in DOMAIN p.tags /\ p.tags[k] = Str(tags[k]).s
    /\ start <= p.time /\ p.time <= stop

Delete(endpoint, start_timestamp, stop_timestamp, tags, thr) ==
    LET r == _resolve_bucket_measurement(name, endpoint)
        base == [NoCall EXCEPT !.op = "delete", !.endpoint = endpoint,
                               !.start = start_timestamp, !.stop = stop_timestamp,
                               !.tags = tags, !.bucket = r.bucket,
                               !.measurement = r.measurement]
        formatted_start == strftime(start_timestamp)
        formatted_stop == strftime(stop_timestamp)
        unformatted == ~formatted_start.ok \/ ~formatted_stop.ok
        threw == ~unformatted /\ (Throws("delete", thr) \/ r.bucket \notin buckets)
        failed == unformatted \/ threw IN
    /\ store' = IF failed THEN store
                ELSE {p \in store : ~Matches(p, r.bucket, r.measurement,
                                             formatted_start.utc, formatted_stop.utc, tags)}
    /\ call' = [base EXCEPT !.flag = IF failed THEN "False" ELSE "True",
                             !.threw = IF threw THEN "delete" ELSE ""]
    /\ UNCHANGED <<name, bkd, clients, buckets, ctx, inp, ldr, callers>>

(***************************************************************************)
(* reset                                                                    *)
(***************************************************************************)
\* endpoint is an optional argument: [some, s]
Reset(endpoint, thr) ==
    LET r == _resolve_bucket_measurement(name, endpoint.s)
        bucket == IF endpoint.some THEN r.bucket ELSE name
        base == [NoCall EXCEPT !.op = "reset", !.endpoint = endpoint.s, !.bucket = bucket,
                               !.measurement = IF endpoint.some THEN r.measurement ELSE Absent,
                               !.given = endpoint.some]
        found == bucket \in buckets IN
    /\ IF Throws("find_bucket", thr)
       THEN /\ call' = [base EXCEPT !.raised = "Exception", !.threw = "find_bucket"]
            /\ UNCHANGED <<buckets, store>>
       ELSE IF found /\ Throws("delete_bucket", thr)
       THEN /\ call' = [base EXCEPT !.raised = "Exception", !.threw = "delete_bucket"]
            /\ UNCHANGED <<buckets, store>>
       ELSE /\ call' = base
            /\ buckets' = buckets \ {bucket}
            /\ store' = {p \in store : p.bucket # bucket}
    /\ UNCHANGED <<name, bkd, clients, ctx, inp, ldr, callers>>

(***************************************************************************)
(* connect, close and the `with` block                                      *)
(***************************************************************************)
\* connect: a new InfluxDBClient becomes self.bkd; a failing ping is logged
Connect(thr) ==
    /\ Len(clients) < MaxConnects
    /\ clients' = Append(clients, [api |-> TRUE, rel |-> 0])
    /\ bkd' = Len(clients) + 1
    /\ call' = [NoCall EXCEPT !.op = "connect", !.flag = "self",
                               !.threw = IF thr = "ping" THEN "ping" ELSE ""]
    /\ UNCHANGED <<name, buckets, store, ctx, inp, ldr, callers>>

\* InfluxDBClient.__del__: releases the api_client it still has, and drops it
ClientDel(cl, k) ==
    IF cl[k].api THEN [cl EXCEPT ![k] = [api |-> FALSE, rel |-> @.rel + 1]] ELSE cl

\* a close that does not look whether there is a client
CloseUnguarded(b, cl) ==
    IF b # 0 THEN [clients |-> [cl EXCEPT ![b] = [api |-> FALSE, rel |-> @.rel + 1]],
                   raised |-> ""]
    ELSE [clients |-> cl, raised |-> "AttributeError"]

\* close: `if hasattr(self, "bkd") and self.bkd: self.bkd.__del__()`
close(b, cl) ==
    IF b # 0 THEN [clients |-> ClientDel(cl, b), raised |-> ""]
    ELSE [clients |-> cl, raised |-> ""]

Close ==
    /\ clients' = close(bkd, clients).clients
    /\ call' = [NoCall EXCEPT !.op = "close", !.raised = close(bkd, clients).raised,
                               !.before = call.op]
    /\ UNCHANGED <<name, bkd, buckets, store, ctx, inp, ldr, callers>>

\* __enter__: what the block is given
__enter__ == "self"

\* an __exit__ that returns True
ExitSuppressing(b, cl) ==
    [clients |-> close(b, cl).clients, closes |-> 1, raised |-> close(b, cl).raised,
     returns |-> "True"]

\* __exit__: closes, and returns None, which suppresses nothing
__exit__(b, cl) ==
    [clients |-> close(b, cl).clients, closes |-> 1, raised |-> close(b, cl).raised,
     returns |-> "None"]

\* `with adapter as target:` reaches its body
Enter ==
    /\ ctx.state = "out"
    /\ ctx.blocks < MaxBlocks
    /\ ctx' = [ctx EXCEPT !.state = "in", !.target = __enter__, !.blocks = @ + 1]
    /\ call' = [NoCall EXCEPT !.op = "enter", !.flag = __enter__]
    /\ UNCHANGED <<name, bkd, clients, buckets, store, inp, ldr, callers>>

\* the body of the block ends, normally or (error) by raising: __exit__ runs,
\* and the error goes on to the caller unless __exit__ returned a true value
Exit(error) ==
    LET x == __exit__(bkd, clients) IN
    /\ ctx.state = "in"
    /\ clients' = x.clients
    /\ ctx' = [ctx EXCEPT !.state = "out", !.exitCloses = @ + x.closes,
                          !.error = error]
    /\ call' = [NoCall EXCEPT !.op = "exit",
                              !.raised = IF x.raised # "" THEN x.raised
                                         ELSE IF error /\ x.returns \in {"None", "False"}
                                         THEN "BlockError" ELSE ""]
    /\ UNCHANGED <<name, bkd, buckets, store, inp, ldr, callers>>

(***************************************************************************)
(* The loader (core.py).  Its values are nested: a scalar [k, v], a mapping *)
(* [k, items], a sequence [k, elems], a typed object [k, cls, fields].      *)
(***************************************************************************)
Scalar(v) == [k |-> "scalar", v |-> v]

Mapping(items) == [k |-> "dict", items |-> items]

Listing(elems) == [k |-> "list", elems |-> elems]

Object(cls, fields) == [k |-> "obj", cls |-> cls, fields |-> fields]

NoValue == [k |-> "none"]

Return(v) == [raised |-> "", v |-> v]

Raise(e) == [raised |-> e, v |-> NoValue]

\* the classes db_influx.py declares, each with its base class
Bases ==
    [c \in {"InfluxDBConfig", "DBInfluxDB"} |->
        IF c = "InfluxDBConfig" THEN "DMBSConfigBase" ELSE "DBBase"]

\* the two base classes of db_base.py, backend types being specializations of
\* the loader's root type
RootBases == [c \in {"DBBase", "DMBSConfigBase"} |-> "ObjCore"]

\* cls.__subclasses__()
Subclasses(cls) ==
    {c \in DOMAIN Bases : Bases[c] = cls} \cup {c \in DOMAIN RootBases : RootBases[c] = cls}

\* get_subclasses(recursive=True): the subclasses of cls, at any distance
RECURSIVE get_subclasses(_)
get_subclasses(cls) ==
    LET sub == Subclasses(cls) IN
    sub \cup UNION {get_subclasses(c) : c \in sub}

\* the names bound at module level in core.py
ModuleGlobals ==
    {"pydantic", "pkg_resources", "copy", "typing", "yaml", "installed_pkg", "ObjCore"}

\* the class a module-level name of core.py evaluates to
GlobalLookup(n) ==
    IF n \in ModuleGlobals THEN [raised |-> "", cls |-> n]
    ELSE [raised |-> "NameError", cls |-> ""]

\* the name by which from_dict reaches the root class of the name table
RootName == "ObjMOSAIC"

\* cls(**obj_copy)
Construct(cls, fields) == Return(Object(cls, fields))

\* the discriminated branch of from_dict, on the mapping whose values are built
Discriminated(obj_copy) ==
    LET root == GlobalLookup(RootName)
        clsname == obj_copy["cls"]
        rest == [key \in DOMAIN obj_copy \ {"cls"} |-> obj_copy[key]] IN
    IF root.raised # "" THEN Raise(root.raised)
    ELSE IF ~(clsname.k = "scalar" /\ clsname.v \in get_subclasses(root.cls))
    THEN Raise("ValueError")
    ELSE Construct(clsname.v, rest)

RECURSIVE from_dict(_)
from_dict(obj) ==
    IF obj.k = "dict"
    THEN LET built == [key \in DOMAIN obj.items |-> from_dict(obj.items[key])]
             failed == {key \in DOMAIN built : built[key].raised # ""}
             obj_copy == [key \in DOMAIN built |-> built[key].v] IN
         IF failed # {} THEN Raise(built[CHOOSE key \in failed : TRUE].raised)
         ELSE IF "cls" \in DOMAIN obj_copy THEN Discriminated(obj_copy)
         ELSE Return(obj)
    ELSE IF obj.k = "list"
    THEN LET built == [i \in DOMAIN obj.elems |-> from_dict(obj.elems[i])]
             failed == {i \in DOMAIN built : built[i].raised # ""} IN
         IF failed # {} THEN Raise(built[CHOOSE i \in failed : \A j \in failed : i <= j].raised)
         ELSE Return(Listing([i \in DOMAIN built |-> built[i].v]))
    ELSE Return(obj)

\* ObjCore.dict: the discriminator merged with the fields' values; pydantic
\* turns a nested object into a mapping too, through this method (nested
\* TRUE, pydantic 1) or through its own serializer (nested FALSE, pydantic 2)
RECURSIVE dict(_, _, _)
dict(x, top, nested) ==
    IF x.k = "obj"
    THEN LET own == [f \in DOMAIN x.fields |-> dict(x.fields[f], FALSE, nested)] IN
         IF top \/ nested THEN Mapping(own @@ ("cls" :> Scalar(x.cls)))
         ELSE Mapping(own)
    ELSE IF x.k = "list"
    THEN Listing([i \in DOMAIN x.elems |-> dict(x.elems[i], FALSE, nested)])
    ELSE IF x.k = "dict"
    THEN Mapping([key \in DOMAIN x.items |-> dict(x.items[key], FALSE, nested)])
    ELSE x

\* to_document: x.dict()
ToDocument(nested) ==
    /\ ldr.step = "object"
    /\ ldr' = [ldr EXCEPT !.step = "document", !.doc = dict(ldr.x, TRUE, nested)]
    /\ UNCHANGED <<name, bkd, clients, buckets, store, call, ctx, inp, callers>>

\* build_from_value: ObjCore.from_dict(document)
FromDict ==
    /\ ldr.step = "document"
    /\ ldr' = [ldr EXCEPT !.step = "built", !.out = from_dict(ldr.doc)]
    /\ UNCHANGED <<name, bkd, clients, buckets, store, call, ctx, inp, callers>>

(***************************************************************************)
(* The callers' inputs                                                      *)
(***************************************************************************)
Offsets == {0, 1}

Datetimes == {DateTime(w, o) : w \in 1..MaxTime, o \in Offsets}

T1 == DateTime(1, 0)

Without(r, k) == [j \in DOMAIN r \ {k} |-> r[j]]

With(r, k, v) == (k :> v) @@ r

\* the record of the spec's scenario, and the second one written beside it
Base == ("_time" :> T1) @@ ("tag_a" :> Val("str", "x")) @@ ("val" :> Val("int", "3"))

Second == ("_time" :> T1) @@ ("tag_a" :> Val("str", "y")) @@ ("val" :> Val("int", "7"))

Changes ==
    {<<"_time", DateTime(2, 0)>>,
     <<"_time", DateTime(2, 1)>>,
     <<"tag_a", Val("list", "[1, 2]")>>,
     <<"tag_a", Val("int", "5")>>,
     <<"val", Val("str", "{'a': 1}")>>,
     <<"val", Val("list", "[1, 2]")>>,
     <<"val", Val("dict", "{'a': 1}")>>,
     <<"val", Val("str", "s")>>,
     <<"measurement", Val("str", "k")>>}

\* the records a caller writes: the two of the scenario, and the first with
\* its time or its field left out, or with one value changed
Items ==
    {Base, Second, Without(Base, "_time"), Without(Base, "val")}
    \cup {With(Base, c[1], c[2]) : c \in Changes}

\* the readings of the server's clock that a write of data can take: the
\* clock is read only for a point without its time
Clock(data, time_field) ==
    IF \A i \in DOMAIN data : PointTime(data[i], time_field).set THEN {0} ELSE 0..MaxTime

DataSets == UNION {[1..n -> Items] : n \in 0..MaxData}

Indexes == {<<>>, <<"tag_a">>}

Alphabet == {"a", "/"}

Endpoints == UNION {[1..n -> Alphabet] : n \in 0..MaxEndpointLen}

Names == {"", "n"}

\* the arguments of a write/read scenario: the records vary, the endpoint is
\* the spec's bucket/measurement
IOScenarios ==
    [endpoint : {<<"a", "/", "m">>}, data : DataSets, index : Indexes, times : {{}}]

\* the arguments of an operations scenario: every endpoint with the spec's
\* record and one deletion range, and the spec's endpoint with records of two
\* tags, two times and two measurements and every deletion range
OpScenarios ==
    [endpoint : Endpoints, data : {<<Base>>}, index : {<<"tag_a">>}, times : {{T1}}]
    \cup [endpoint : {<<"a", "/", "m">>},
          data : {<<Base, Second, With(Base, "_time", DateTime(MaxTime, 0)),
                    With(Base, "measurement", Val("str", "k"))>>},
          index : {<<"tag_a">>}, times : {Datetimes}]

TagFilters == {<<>>, "tag_a" :> Val("str", "x")}

IdleLoader == [step |-> "idle", x |-> NoValue, doc |-> NoValue, out |-> Return(NoValue)]

IdleBlock == [state |-> "out", target |-> "", blocks |-> 0, exitCloses |-> 0, error |-> FALSE]

FirstCall == NoCall

\* no caller is inside an operation of its own
NoCallers == <<>>

(***************************************************************************)
(* Spec: the six operations of a connected adapter, on every endpoint       *)
(***************************************************************************)
\* a constructed adapter, connect() returned, over a backend with no bucket
Connected0(scenarios, names) ==
    /\ name \in names
    /\ inp \in scenarios
    /\ bkd = 1
    /\ clients = <<[api |-> TRUE, rel |-> 0]>>
    /\ buckets = {}
    /\ store = {}
    /\ call = FirstCall
    /\ ctx = IdleBlock
    /\ ldr = IdleLoader
    /\ callers = NoCallers

Init == Connected0(OpScenarios, Names)

Next ==
    \/ \E thr \in {"none", "find_bucket", "create_bucket", "write"} :
          Put(inp.endpoint, inp.data, inp.index, "_time", thr, 0)
    \/ \E thr \in {"none", "find_bucket", "create_bucket", "write"} :
          Update(inp.endpoint, Second, inp.index, "_time", thr, 0)
    \/ \E thr \in {"none", "query"} :
          Get(inp.endpoint, <<>>, <<>>, 0, "_time", FALSE, thr, 0)
    \/ \E thr \in {"none", "query"}, now \in 0..MaxTime :
          Size(inp.endpoint, thr, now)
    \/ \E start \in inp.times, stop \in inp.times, tags \in TagFilters,
          thr \in {"none", "delete"} :
          Delete(inp.endpoint, start, stop, tags, thr)
    \/ \E endpoint \in {[some |-> FALSE, s |-> <<>>], [some |-> TRUE, s |-> inp.endpoint]},
          thr \in {"none", "find_bucket", "delete_bucket"} :
          Reset(endpoint, thr)

Spec == Init /\ [][Next]_vars

(***************************************************************************)
(* SpecIO: writes and reads of every record set, on one endpoint            *)
(***************************************************************************)
InitIO == Connected0(IOScenarios, {""})

NextIO ==
    \/ \E thr \in {"none", "write"}, now \in Clock(inp.data, "_time") :
          Put(inp.endpoint, inp.data, inp.index, "_time", thr, now)
    \/ Get(inp.endpoint, <<>>, <<>>, 0, "_time", FALSE, "none", 0)

SpecIO == InitIO /\ [][NextIO]_vars

(***************************************************************************)
(* SpecLife: connect, close and the `with` block, from construction         *)
(***************************************************************************)
LifeScenario ==
    [endpoint |-> <<"a", "/", "m">>, data |-> <<Base>>, index |-> <<"tag_a">>,
     times |-> {T1}]

\* a constructed adapter: bkd is None
InitLife ==
    /\ name = ""
    /\ inp = LifeScenario
    /\ bkd = 0
    /\ clients = <<>>
    /\ buckets = {}
    /\ store = {}
    /\ call = FirstCall
    /\ ctx = IdleBlock
    /\ ldr = IdleLoader
    /\ callers = NoCallers

NextLife ==
    \/ \E thr \in {"none", "ping"} : Connect(thr)
    \/ Close
    \/ Enter
    \/ \E error \in BOOLEAN : Exit(error)
    \/ Put(inp.endpoint, inp.data, inp.index, "_time", "none", 0)
    \/ Delete(inp.endpoint, T1, T1, <<>>, "none")

SpecLife == InitLife /\ [][NextLife]_vars

(***************************************************************************)
(* SpecLoader: documents and typed objects through the loader               *)
(***************************************************************************)
MaxDepth == 2
MaxList == 1

ClsNames == {"InfluxDBConfig", "Nope"}

MappingsOver(V) ==
    {Mapping(f) : f \in [{"a"} -> V] \cup {<<>>}}
    \cup {Mapping(f @@ ("cls" :> Scalar(c))) : f \in [{"a"} -> V] \cup {<<>>}, c \in ClsNames}

ListingsOver(V) == {Listing(e) : e \in UNION {[1..n -> V] : n \in 0..MaxList}}

\* the documents nested to depth d
RECURSIVE Documents(_)
Documents(d) ==
    IF d = 0 THEN {Scalar("1")}
    ELSE Documents(d - 1) \cup MappingsOver(Documents(d - 1))
                          \cup ListingsOver(Documents(d - 1))

\* the typed objects: a configuration, and an adapter holding one
Configs ==
    {Object("InfluxDBConfig", [f \in {"url", "org", "token"} |-> Scalar(v[f])])
        : v \in [{"url", "org", "token"} -> {"s", "t"}]}

Adapters ==
    {Object("DBInfluxDB", ("name" :> Scalar(n)) @@ ("config" :> c))
        : n \in {"s", "t"}, c \in Configs}

InitLoader ==
    /\ ldr \in [step : {"object"}, x : Configs \cup Adapters, doc : {NoValue},
                out : {Return(NoValue)}]
               \cup [step : {"document"}, x : {NoValue}, doc : Documents(MaxDepth),
                     out : {Return(NoValue)}]
    /\ name = ""
    /\ inp = LifeScenario
    /\ bkd = 0
    /\ clients = <<>>
    /\ buckets = {}
    /\ store = {}
    /\ call = FirstCall
    /\ ctx = IdleBlock
    /\ callers = NoCallers

NextLoader ==
    \/ \E nested \in BOOLEAN : ToDocument(nested)
    \/ FromDict

SpecLoader == InitLoader /\ [][NextLoader]_vars

(***************************************************************************)
(* SpecRace: callers that interleave put and reset on one adapter, a step   *)
(* per backend call                                                         *)
(***************************************************************************)
MaxCallers == 2

RaceEndpoints == {<<"a", "/", "m">>, <<"m", "/", "a">>}

IdleCaller ==
    [pc |-> "idle", op |-> "none", bucket |-> "", measurement |-> Absent,
     found |-> FALSE, issued |-> FALSE, raised |-> "", failure_count |-> 0]

\* put, up to the answer of find_bucket_by_name
PutLookup(c, endpoint) ==
    LET r == _resolve_bucket_measurement(name, endpoint) IN
    /\ callers[c].pc = "idle"
    /\ callers' = [callers EXCEPT ![c] =
                      [IdleCaller EXCEPT !.pc = "looked", !.op = "put",
                                         !.bucket = r.bucket,
                                         !.measurement = r.measurement,
                                         !.found = r.bucket \in buckets]]
    /\ UNCHANGED <<name, bkd, clients, buckets, store, call, ctx, inp, ldr>>

\* a create_bucket that some caller has to issue
NotFoundAlways(found_bucket) == TRUE

\* `if not found_bucket`
NotFound(found_bucket) == ~found_bucket

\* put, the create_bucket call: the backend creates the bucket; asked for a
\* bucket that exists by now, it refuses (conflict) or lets the call pass
PutCreate(c, conflict) ==
    /\ callers[c].pc = "looked"
    /\ NotFound(callers[c].found)
    /\ IF callers[c].bucket \in buckets /\ conflict
       THEN /\ callers' = [callers EXCEPT ![c].pc = "idle", ![c].issued = TRUE,
                                          ![c].raised = "ApiException"]
            /\ UNCHANGED buckets
       ELSE /\ callers' = [callers EXCEPT ![c].pc = "ensured", ![c].issued = TRUE]
            /\ buckets' = buckets \cup {callers[c].bucket}
    /\ UNCHANGED <<name, bkd, clients, store, call, ctx, inp, ldr>>

\* put, from the point loop to the batch write and the counts
PutWrite(c) ==
    LET me == callers[c]
        points == [i \in 1..Len(inp.data) |->
                      BuildPoint(inp.data[i], inp.index, "_time", me.measurement)]
        w == WriteBatch(store, me.bucket, points, 0, 1)
        failed == me.bucket \notin buckets \/ w.refused IN
    /\ me.pc = "ensured" \/ (me.pc = "looked" /\ ~NotFound(me.found))
    /\ store' = IF me.bucket \in buckets THEN w.st ELSE store
    /\ callers' = [callers EXCEPT ![c].pc = "idle",
                                  ![c].failure_count = IF failed THEN Len(inp.data) ELSE 0]
    /\ UNCHANGED <<name, bkd, clients, buckets, call, ctx, inp, ldr>>

\* reset, up to the answer of find_bucket_by_name; it is over when there is
\* no such bucket
ResetLookup(c, endpoint) ==
    LET r == _resolve_bucket_measurement(name, endpoint) IN
    /\ callers[c].pc = "idle"
    /\ callers' = [callers EXCEPT ![c] =
                      [IdleCaller EXCEPT !.pc = IF r.bucket \in buckets
                                                THEN "reset_found" ELSE "idle",
                                         !.op = "reset", !.bucket = r.bucket,
                                         !.found = r.bucket \in buckets]]
    /\ UNCHANGED <<name, bkd, clients, buckets, store, call, ctx, inp, ldr>>

\* reset, the delete_bucket call, whose exception is raised again
ResetDelete(c) ==
    /\ callers[c].pc = "reset_found"
    /\ callers' = [callers EXCEPT ![c].pc = "idle",
                                  ![c].raised = IF callers[c].bucket \in buckets
                                                THEN "" ELSE "ApiException"]
    /\ buckets' = buckets \ {callers[c].bucket}
    /\ store' = {p \in store : p.bucket # callers[c].bucket}
    /\ UNCHANGED <<name, bkd, clients, call, ctx, inp, ldr>>

\* one connected adapter without a name, used by one caller or by several
InitRace ==
    /\ callers \in UNION {[1..n -> {IdleCaller}] : n \in 1..MaxCallers}
    /\ name = ""
    /\ inp = LifeScenario
    /\ bkd = 1
    /\ clients = <<[api |-> TRUE, rel |-> 0]>>
    /\ buckets = {}
    /\ store = {}
    /\ call = FirstCall
    /\ ctx = IdleBlock
    /\ ldr = IdleLoader

NextRace ==
    \E c \in DOMAIN callers :
        \/ \E endpoint \in RaceEndpoints : PutLookup(c, endpoint)
        \/ \E conflict \in BOOLEAN : PutCreate(c, conflict)
        \/ PutWrite(c)
        \/ \E endpoint \in RaceEndpoints : ResetLookup(c, endpoint)
        \/ ResetDelete(c)

SpecRace == InitRace /\ [][NextRace]_vars

(***************************************************************************)
(* Claims                                                                   *)
(***************************************************************************)
NoSlash(cs) == \A j \in DOMAIN cs : cs[j] # "/"

\* cs is bucket/measurement with its one slash at k
OneSlashAt(cs, k) == cs[k] = "/" /\ \A j \in DOMAIN cs : j # k => cs[j] # "/"

\* C8: every operation that is given an endpoint works on the bucket and the
\* measurement the endpoint stands for: with an adapter name, the name and the
\* whole endpoint; without one, the two sides of the slash of
\* "bucket/measurement", or the endpoint and no measurement when it has no slash
C8_EndpointResolution ==
    (call.op \in {"put", "get", "update", "delete", "size", "reset"} /\ call.given) =>
        IF name # ""
        THEN call.bucket = name /\ call.measurement = Some(Join(call.endpoint))
        ELSE /\ \A k \in DOMAIN call.endpoint :
                    OneSlashAt(call.endpoint, k) =>
                        /\ call.bucket = Join(SubSeq(call.endpoint, 1, k - 1))
                        /\ call.measurement =
                               Some(Join(SubSeq(call.endpoint, k + 1, Len(call.endpoint))))
             /\ NoSlash(call.endpoint) =>
                    call.bucket = Join(call.endpoint) /\ call.measurement = Absent

C8_Witness ==
    /\ call.op = "delete" /\ name = "" /\ call.endpoint = <<"a", "/", "a">>
    /\ call.bucket = "a" /\ call.measurement = Some("a")

\* C3: a put during which a backend call threw did not raise and reports no
\* success and every record as a failure, and no put reports a partial count
C3_PutFailureIsAValue ==
    call.op = "put" =>
        /\ call.threw # "" =>
               /\ call.raised = ""
               /\ call.success_count = 0
               /\ call.failure_count = Len(call.data)
        /\ ~(0 < call.success_count /\ call.success_count < Len(call.data))

\* C4: an update, delete or reset during which a backend call threw did not
\* raise and returned False
C4_FailureIsFalse ==
    (call.op \in {"update", "delete", "reset"} /\ call.threw # "") =>
        call.raised = "" /\ call.flag = "False"

\* the points the claim has delete remove: those of the resolved measurement
\* whose time is in [start, stop] and whose tags equal every given tag
Claimed(p, c) ==
    /\ p.bucket = c.bucket
    /\ p.m = IF c.measurement.some THEN c.measurement.s ELSE "None"
    /\ Instant(c.start) <= p.time /\ p.time <= Instant(c.stop)
    /\ \A k \in DOMAIN c.tags : k \in DOMAIN p.tags /\ p.tags[k] = c.tags[k].s

\* C5: a delete the backend carried out returned True and removed exactly the
\* points of the measurement in [start, stop] with the given tags
C5_DeleteRemovesExactly ==
    [][(call'.op = "delete" /\ call'.threw = "") =>
          /\ call'.flag = "True"
          /\ store' = {p \in store : ~Claimed(p, call')}]_vars

\* the tags of a record: its values under the index keys
TagsOf(d, index, time_field) ==
    [k \in {k \in Range(index) : k \in DOMAIN d /\ k # time_field} |-> d[k]]

\* the other keys of a record: its fields
FieldKeys(d, index, time_field) ==
    DOMAIN d \ (Range(index) \cup {time_field, "measurement"})

Timed(data, time_field) ==
    \A i \in DOMAIN data : time_field \in DOMAIN data[i] /\ data[i][time_field].t = "datetime"

\* the (tag combination, timestamp) pairs of the records are pairwise distinct
DistinctPairs(data, index, time_field) ==
    \A i \in DOMAIN data, j \in DOMAIN data :
        i # j => \/ TagsOf(data[i], index, time_field) # TagsOf(data[j], index, time_field)
                 \/ Instant(data[i][time_field]) # Instant(data[j][time_field])

\* row r carries the tags, the timestamp and every field value of record d
RowCarries(r, d, time_field) ==
    \A k \in DOMAIN d \ {"measurement"} :
        /\ k \in DOMAIN r
        /\ IF k = time_field
           THEN r[k].t = "datetime" /\ Instant(r[k]) = Instant(d[k])
           ELSE r[k] = d[k]

\* exactly one row per record, each carrying its record
ReadBack(data, rows, time_field) ==
    /\ Cardinality(rows) = Len(data)
    /\ \A i \in DOMAIN data : \E r \in rows : RowCarries(r, data[i], time_field)

\* a get of the endpoint just written, answered by the backend, follows a put
\* that reported no failure
PutThenGet ==
    /\ call.op = "put" /\ call.raised = "" /\ call.failure_count = 0
    /\ call'.op = "get" /\ call'.endpoint = call.endpoint /\ call'.threw = ""
    /\ call'.tags = <<>> /\ call'.index = <<>> /\ call'.count = 0

Plain(data, index, time_field) ==
    /\ Len(data) >= 1
    /\ Timed(data, time_field)
    /\ Range(index) \cap not_tag_fields = {}
    /\ \A i \in DOMAIN data :
          /\ "measurement" \notin DOMAIN data[i]
          /\ "_time" \notin FieldKeys(data[i], index, time_field)
          /\ \A k \in Range(index) :
                k \in DOMAIN data[i] /\ data[i][k].t = "str" /\ data[i][k].s # ""
          /\ FieldKeys(data[i], index, time_field) # {}
          /\ \A k \in FieldKeys(data[i], index, time_field) :
                /\ data[i][k].t \in {"str", "int", "float"}
                /\ ~(data[i][k].t = "str" /\ LiteralEval(data[i][k].s).ok)

C2_PutIdempotent ==
    [][(/\ call'.op = "put" /\ call'.again
        /\ Timed(call'.data, call'.time_field)) =>
          store' = store /\ buckets' = buckets]_vars

C2_Witness ==
    /\ call.op = "put" /\ call.again /\ call.failure_count = 0 /\ call.raised = ""
    /\ Len(call.data) = 2 /\ Timed(call.data, call.time_field)
    /\ Cardinality(store) = 2

\* the adapter's handle was released before this step
Closed == bkd # 0 /\ ~clients[bkd].api

\* C6: a close in any lifecycle state raises nothing and leaves the adapter
\* with no open handle; a close of an adapter never connected or already
\* closed changes no handle, and no handle is ever released twice
C6_CloseIdempotent ==
    [][call'.op = "close" =>
          /\ call'.raised = ""
          /\ ~Connected'
          /\ (bkd = 0 \/ Closed) => clients' = clients
          /\ \A k \in DOMAIN clients' : clients'[k].rel <= 1]_vars

\* a second close of a connected adapter: its handle was released once
C6_Witness ==
    /\ call.op = "close" /\ call.before = "close" /\ call.raised = ""
    /\ bkd # 0 /\ clients[bkd].rel = 1

\* C7: a managed block is given the adapter itself; every exit from it,
\* normal or by an error, runs close exactly once, and an error raised in the
\* block goes on to the caller after the close
C7_ScopedAcquisition ==
    [][/\ call'.op = "enter" => ctx'.target = "self" /\ call'.flag = "self"
       /\ call'.op = "exit" =>
             /\ ctx'.exitCloses = ctx.exitCloses + 1
             /\ clients' = close(bkd, clients).clients
             /\ ~Connected'
             /\ call'.raised = IF ctx'.error THEN "BlockError" ELSE ""]_vars

\* a block over a connected adapter left by an error: the handle is released
\* and the error reaches the caller
C7_Witness ==
    /\ call.op = "exit" /\ ctx.error /\ call.raised = "BlockError"
    /\ ctx.exitCloses = ctx.blocks
    /\ bkd # 0 /\ ~clients[bkd].api /\ clients[bkd].rel = 1

\* C9: the document of a typed object carries the object's type name under
\* cls, and building from that document returns an object of that type with
\* every field equal to the object's
C9_RoundTrip ==
    (ldr.step \in {"document", "built"} /\ ldr.x.k = "obj") =>
        /\ ldr.doc.k = "dict"
        /\ "cls" \in DOMAIN ldr.doc.items
        /\ ldr.doc.items["cls"] = Scalar(ldr.x.cls)
        /\ ldr.step = "built" =>
               /\ ldr.out.raised = ""
               /\ ldr.out.v.k = "obj"
               /\ ldr.out.v.cls = ldr.x.cls
               /\ ldr.out.v.fields = ldr.x.fields

\* some mapping of the document, at any depth, carries a discriminator that
\* names no subclass of ObjCore
RECURSIVE HasUnknownDiscriminator(_)
HasUnknownDiscriminator(doc) ==
    IF doc.k = "dict"
    THEN \/ /\ "cls" \in DOMAIN doc.items
            /\ ~(doc.items["cls"].k = "scalar"
                    /\ doc.items["cls"].v \in get_subclasses("ObjCore"))
         \/ \E key \in DOMAIN doc.items : HasUnknownDiscriminator(doc.items[key])
    ELSE IF doc.k = "list"
    THEN \E i \in DOMAIN doc.elems : HasUnknownDiscriminator(doc.elems[i])
    ELSE FALSE

\* C10: building from a document with an unknown discriminator at any depth
\* fails with the ValueError that names the type, and returns nothing
C10_UnknownDiscriminatorFails ==
    (ldr.step = "built" /\ HasUnknownDiscriminator(ldr.doc)) =>
        ldr.out.raised = "ValueError" /\ ldr.out.v = NoValue

\* what the claim has the build return: every value of a mapping built, a
\* discriminated mapping as an object of its type, a sequence element by
\* element, a scalar as it is
RECURSIVE BuiltValue(_)
BuiltValue(doc) ==
    IF doc.k = "dict"
    THEN LET values == [key \in DOMAIN doc.items |-> BuiltValue(doc.items[key])] IN
         IF "cls" \in DOMAIN values
         THEN Object(values["cls"].v, [key \in DOMAIN values \ {"cls"} |-> values[key]])
         ELSE Mapping(values)
    ELSE IF doc.k = "list"
    THEN Listing([i \in DOMAIN doc.elems |-> BuiltValue(doc.elems[i])])
    ELSE doc

\* C11: building from a document whose discriminators all name known types
\* returns the document with every discriminated mapping, at any depth,
\* replaced by an object of its type, sequences kept in length and order,
\* scalars unchanged
C11_BuildsEveryDepth ==
    (ldr.step = "built" /\ ldr.x = NoValue /\ ~HasUnknownDiscriminator(ldr.doc)) =>
        ldr.out = Return(BuiltValue(ldr.doc))

\* the roles the claim gives the keys of record d: the tags by key name
ClaimedTags(d, index, time_field) ==
    [k \in {k \in Range(index) : k \in DOMAIN d /\ k # time_field} |-> d[k]]

\* the fields by key name, a non-primitive value as its str
ClaimedFields(d, index, time_field) ==
    [k \in FieldKeys(d, index, time_field) |->
        IF IsPrimitive(d[k]) THEN d[k] ELSE Str(d[k])]

\* C12: a put that reached its batch write built one point per record, with
\* the record's time as its timestamp, its index keys as tags under their
\* own names, its measurement key as the measurement, every other key as a
\* field under its own name, and no name both a tag and a field
C12_KeyClassification ==
    (call.op = "put" /\ call.raised = "") =>
        /\ Len(call.points) = Len(call.data)
        /\ \A i \in DOMAIN call.data :
              LET d == call.data[i]
                  p == call.points[i] IN
              /\ p.time.set = (call.time_field \in DOMAIN d)
              /\ p.time.set => p.time.v = d[call.time_field]
              /\ p.tags = ClaimedTags(d, call.index, call.time_field)
              /\ "measurement" \in DOMAIN d => p.name = d["measurement"]
              /\ "measurement" \notin DOMAIN d =>
                     p.name = IF call.measurement.some
                              THEN Val("str", call.measurement.s) ELSE NoneVal
              /\ p.fields = ClaimedFields(d, call.index, call.time_field)
              /\ DOMAIN p.tags \cap DOMAIN p.fields = {}

\* caller c issues create_bucket in this step
CreateIssued(c) == callers'[c].issued /\ ~callers[c].issued

\* caller c issues the batch write of its put in this step
WriteIssued(c) ==
    /\ callers[c].op = "put" /\ callers[c].pc \in {"looked", "ensured"}
    /\ callers'[c].pc = "idle" /\ callers'[c].raised = ""

\* C13: a caller issues create_bucket only after it saw the bucket absent;
\* with a single caller, over put and reset calls, create_bucket is issued
\* only for a bucket that is absent, and the bucket exists when the batch
\* write is issued
C13_CheckThenCreate ==
    [][\A c \in DOMAIN callers :
          /\ CreateIssued(c) => ~callers[c].found
          /\ DOMAIN callers = {1} =>
                /\ CreateIssued(c) => callers[c].bucket \notin buckets
                /\ WriteIssued(c) => callers[c].bucket \in buckets]_vars

\* two callers in put on one bucket: both saw it absent, both issued
\* create_bucket for it
C13_Witness ==
    /\ DOMAIN callers = {1, 2}
    /\ \A c \in {1, 2} :
          /\ callers[c].op = "put" /\ callers[c].bucket = "a"
          /\ ~callers[c].found /\ callers[c].issued

====
